---- MODULE Spec2Model ----
(***************************************************************************)
(* The order workflow of the estore API (src/routes/orders.js) over the    *)
(* document store: the OrderItem, Order and Product collections, the       *)
(* order handlers, and the product handlers that change what an order      *)
(* reads.  Every await of a handler is a point where other requests run,   *)
(* so a handler is one action per stretch of code between two awaits.      *)
(***************************************************************************)
EXTENDS Integers, Sequences, FiniteSets, TLC

\* ---------------------------------------------------------------- bounds
MaxItemIds == 2        \* OrderItem documents ever constructed, over all requests

Requests == {1, 2}                    \* POST /orders requests, by arrival
ProductIds == {"p1"}                  \* the catalogue
CategoryIds == {"c1"}                 \* the categories of the catalogue
Quantities == {1, 2}
Prices == {1, 2}
Statuses == {"Pending", "Shipped"}    \* status is any string: two of them
Users == {"u1"}
UserIds == Users \cup {"u2"}          \* the ids asked for: "u2" has no order
Addresses == {"a1"}
Phones == {"ph1"}

\* JavaScript values that may be a number, undefined or NaN
Num(n) == [t |-> "number", v |-> n]
Undefined == [t |-> "undefined", v |-> 0]
NaN == [t |-> "NaN", v |-> 0]
IsNum(x) == x.t = "number"

\* what a caller may put in the body's totalPrice field
CallerTotals == {Undefined, Num(9)}

VARIABLES
    products,      \* Product collection: product id -> [exists, price]
    categories,    \* Category collection: the ids of the stored categories
    orderItems,    \* OrderItem collection: _id -> [quantity, product]
    orders,        \* Order collection: _id -> order document
    nextItemId,    \* ObjectIds handed out so far to new OrderItem(...)
    nextOrderId,   \* ObjectIds handed out so far to new Order(...)
    posts,         \* POST /orders requests: request -> its handler's frame
    removing,      \* OrderItem ids whose findByIdAndRemove a DELETE has issued
    res,           \* the response this step sent, of a handler answered in one step
    log            \* history: the POST /orders requests answered 201

vars == <<products, categories, orderItems, orders, nextItemId, nextOrderId, posts, removing, res, log>>

\* ------------------------------------------------------- pure helpers
Range(s) == {s[i] : i \in 1..Len(s)}

RECURSIVE SumSeq(_)
SumSeq(s) == IF s = <<>> THEN 0 ELSE s[1] + SumSeq(Tail(s))

\* JavaScript a + b on numbers, undefined and NaN
JsAdd(a, b) == IF IsNum(a) /\ IsNum(b) THEN Num(a.v + b.v) ELSE NaN

\* JavaScript a * b on numbers, undefined and NaN
JsMul(a, b) == IF IsNum(a) /\ IsNum(b) THEN Num(a.v * b.v) ELSE NaN

\* subtotals.reduce((a,b) => a + b, 0)
RECURSIVE ReduceFrom(_, _)
ReduceFrom(acc, s) == IF s = <<>> THEN acc ELSE ReduceFrom(JsAdd(acc, s[1]), Tail(s))

TotalPrice(subtotals) == ReduceFrom(Num(0), subtotals)

\* ------------------------------------------------------------ responses
\* res.status(status).json({success, message | error, data}) of handler `op`.
\* The catch blocks answer with the error they caught: a rejected store call
\* (StoreError) or a TypeError thrown by the handler's own code.
StoreError == "StoreError"
TypeError == "TypeError"
NoResponse == [op |-> "none", status |-> 0, success |-> FALSE, message |-> "",
               error |-> "", data |-> <<>>]
Success(op, status, message, data) ==
    [op |-> op, status |-> status, success |-> TRUE, message |-> message,
     error |-> "", data |-> data]
Failure(op, status, error) ==
    [op |-> op, status |-> status, success |-> FALSE, message |-> "",
     error |-> error, data |-> <<>>]

\* ------------------------------------------------------- request bodies
ItemPairs == [quantity : Quantities, product : ProductIds]
ItemLists == UNION {[1..n -> ItemPairs] : n \in 1..MaxItemIds}
Bodies == [orderItems : ItemLists, shippingAddress1 : Addresses,
           shippingAddress2 : Addresses, city : Addresses, zip : Addresses,
           country : Addresses, phone : Phones, status : Statuses,
           totalPrice : CallerTotals, user : Users]

\* ------------------------------------------------------------- the store
NoProduct == [exists |-> FALSE, price |-> 0]
ProductDoc(price) == [exists |-> TRUE, price |-> price]

Without(f, k) == [x \in DOMAIN f \ {k} |-> f[x]]
With(f, k, v) == [x \in DOMAIN f \cup {k} |-> IF x = k THEN v ELSE f[x]]

\* ------------------------------------------------- POST /orders, its frame
Pending == [t |-> "pending", v |-> 0]

\* pc: where the handler is; body: req.body; ids, docs: the _id and the
\* document of each constructed OrderItem; save: the state of each save();
\* orderItemsIds: the values of the first Promise.all, NoId where a save has
\* not resolved; subtotals: the values of the second; read: the price each
\* lookup read.  A frame keeps what the code still reads: past the first
\* Promise.all the ids are in orderItemsIds, and a handler that has answered
\* keeps only what its saves still in flight write.
NoId == 0
IdleFrame == [pc |-> "idle", body |-> <<>>, ids |-> <<>>, docs |-> <<>>,
              save |-> <<>>, orderItemsIds |-> <<>>, subtotals |-> <<>>,
              read |-> <<>>]

\* new OrderItem({quantity, product}) for one pair of the body
NewOrderItem(pair) == [quantity |-> pair.quantity, product |-> pair.product]

\* Promise.all(promises) when the i-th promise resolves with `value`: the value
\* goes to position i of the values, whatever the order the promises settle in
PromiseAllPush(values, i, value) ==
    LET hole == CHOOSE j \in 1..Len(values) :
                    values[j] = NoId /\ \A k \in 1..(j - 1) : values[k] # NoId
    IN [values EXCEPT ![hole] = value]
PromiseAllResolve(values, i, value) == [values EXCEPT ![i] = value]

\* item.quantity * item.product.price of the lookup callback
SubtotalSum(quantity, price) == Num(quantity + price)
Subtotal(quantity, price) == JsMul(Num(quantity), Num(price))

\* new Order({...}) of the handler: orderItems and totalPrice are the handler's
\* own values, the other fields are the body's; _id and dateOrdered are set
\* at construction
NewOrderCallerTotal(body, ids, totalPrice, id) ==
    [_id |-> id, orderItems |-> ids, shippingAddress1 |-> body.shippingAddress1,
     shippingAddress2 |-> body.shippingAddress2, city |-> body.city,
     zip |-> body.zip, country |-> body.country, phone |-> body.phone,
     status |-> body.status,
     totalPrice |-> IF IsNum(body.totalPrice) THEN body.totalPrice.v ELSE totalPrice,
     user |-> body.user, dateOrdered |-> id]
NewOrder(body, ids, totalPrice, id) ==
    [_id |-> id, orderItems |-> ids, shippingAddress1 |-> body.shippingAddress1,
     shippingAddress2 |-> body.shippingAddress2, city |-> body.city,
     zip |-> body.zip, country |-> body.country, phone |-> body.phone,
     status |-> body.status, totalPrice |-> totalPrice,
     user |-> body.user, dateOrdered |-> id]

\* The frame once the handler has returned a response
Responded(f) ==
    LET inFlight == \E i \in 1..Len(f.save) : f.save[i] = "pending" IN
    [IdleFrame EXCEPT !.pc = "responded",
                      !.ids = IF inFlight THEN f.ids ELSE <<>>,
                      !.docs = IF inFlight THEN f.docs ELSE <<>>,
                      !.save = IF inFlight THEN f.save ELSE <<>>]

\* The handler up to its first await: the map callback runs for every pair,
\* constructing the OrderItem (its _id is generated here) and calling save().
\* Promise.all of no promise is resolved already.
PostStart(r, body) ==
    /\ posts[r].pc = "idle"
    /\ \A q \in Requests : q < r => posts[q].pc # "idle"
    /\ LET n == Len(body.orderItems) IN
       /\ nextItemId + n <= MaxItemIds
       /\ nextItemId' = nextItemId + n
       /\ posts' = [posts EXCEPT ![r] =
                      [IdleFrame EXCEPT !.pc = IF n = 0 THEN "pricing" ELSE "saving",
                         !.body = body,
                         !.ids = [i \in 1..n |-> nextItemId + i],
                         !.docs = [i \in 1..n |-> NewOrderItem(body.orderItems[i])],
                         !.save = [i \in 1..n |-> "pending"],
                         !.orderItemsIds = [i \in 1..n |-> NoId],
                         !.subtotals = [i \in 1..n |-> Pending],
                         !.read = [i \in 1..n |-> 0]]]
    /\ res' = NoResponse
    /\ UNCHANGED <<categories, products, orderItems, orders, nextOrderId, removing, log>>

\* newOrderItem.save() of the i-th pair settles.  A rejection rejects the
\* Promise.all, whose catch answers 500; the other saves stay in flight.
\* The last save resolves the Promise.all and the lookups are issued.
PostSaveItemRollback(r, i, ok) ==
    LET f == posts[r]
        saved == {f.ids[j] : j \in {k \in 1..Len(f.save) : f.save[k] = "saved"}} IN
    /\ f.pc # "idle"
    /\ i \in 1..Len(f.save)
    /\ f.save[i] = "pending"
    /\ orderItems' = IF ok THEN With(orderItems, f.ids[i], f.docs[i])
                     ELSE [x \in DOMAIN orderItems \ saved |-> orderItems[x]]
    /\ LET g == [f EXCEPT !.save[i] = IF ok THEN "saved" ELSE "failed"] IN
       posts' = [posts EXCEPT ![r] =
          IF f.pc = "responded" \/ ~ok THEN Responded(g)
          ELSE LET values == PromiseAllResolve(f.orderItemsIds, i, f.ids[i]) IN
               IF \A j \in 1..Len(g.save) : g.save[j] = "saved"
               THEN [g EXCEPT !.pc = "pricing", !.orderItemsIds = values,
                              !.ids = <<>>, !.docs = <<>>, !.save = <<>>]
               ELSE [g EXCEPT !.orderItemsIds = values]]
    /\ res' = IF f.pc = "saving" /\ ~ok THEN Failure("post", 500, StoreError) ELSE NoResponse
    /\ UNCHANGED <<categories, products, orders, nextItemId, nextOrderId, removing, log>>
PostSaveItemRace(r, i, ok) ==
    LET f == posts[r] IN
    /\ f.pc # "idle"
    /\ i \in 1..Len(f.save)
    /\ f.save[i] = "pending"
    /\ orderItems' = IF ok THEN With(orderItems, f.ids[i], f.docs[i]) ELSE orderItems
    /\ LET g == [f EXCEPT !.save[i] = IF ok THEN "saved" ELSE "failed"] IN
       posts' = [posts EXCEPT ![r] =
          IF f.pc = "responded" \/ ~ok THEN Responded(g)
          ELSE LET values == PromiseAllResolve(f.orderItemsIds, i, f.ids[i]) IN
               IF \A j \in 1..Len(g.save) : g.save[j] = "saved"
               THEN [g EXCEPT !.pc = "pricing", !.orderItemsIds = values,
                              !.ids = <<>>, !.docs = <<>>, !.save = <<>>]
               ELSE [g EXCEPT !.pc = "pricing", !.orderItemsIds = values]]
    /\ res' = IF f.pc = "saving" /\ ~ok THEN Failure("post", 500, StoreError) ELSE NoResponse
    /\ UNCHANGED <<categories, products, orders, nextItemId, nextOrderId, removing, log>>
PostSaveItem(r, i, ok) ==
    LET f == posts[r] IN
    /\ f.pc # "idle"
    /\ i \in 1..Len(f.save)
    /\ f.save[i] = "pending"
    /\ orderItems' = IF ok THEN With(orderItems, f.ids[i], f.docs[i]) ELSE orderItems
    /\ LET g == [f EXCEPT !.save[i] = IF ok THEN "saved" ELSE "failed"] IN
       posts' = [posts EXCEPT ![r] =
          IF f.pc = "responded" \/ ~ok THEN Responded(g)
          ELSE LET values == PromiseAllResolve(f.orderItemsIds, i, f.ids[i]) IN
               IF \A j \in 1..Len(g.save) : g.save[j] = "saved"
               THEN [g EXCEPT !.pc = "pricing", !.orderItemsIds = values,
                              !.ids = <<>>, !.docs = <<>>, !.save = <<>>]
               ELSE [g EXCEPT !.orderItemsIds = values]]
    /\ res' = IF f.pc = "saving" /\ ~ok THEN Failure("post", 500, StoreError) ELSE NoResponse
    /\ UNCHANGED <<categories, products, orders, nextItemId, nextOrderId, removing, log>>

\* One lookup callback settles: findById(id).populate('product', 'price').
\* No item: the callback returns undefined.  An item whose product is not
\* found has product null, and reading its price throws: 500.
PostLookupFirstPrice(r, i, ok) ==
    LET f == posts[r]
        settled == {j \in 1..Len(f.read) : f.read[j] # 0} IN
    /\ f.pc = "pricing"
    /\ i \in 1..Len(f.orderItemsIds)
    /\ f.subtotals[i] = Pending
    /\ LET id == f.orderItemsIds[i] IN
       IF ~ok
       THEN /\ posts' = [posts EXCEPT ![r] = Responded(f)]
            /\ res' = Failure("post", 500, StoreError)
       ELSE IF id \notin DOMAIN orderItems
       THEN /\ posts' = [posts EXCEPT ![r] = [f EXCEPT !.subtotals[i] = Undefined]]
            /\ res' = NoResponse
       ELSE IF ~products[orderItems[id].product].exists
       THEN /\ posts' = [posts EXCEPT ![r] = Responded(f)]
            /\ res' = Failure("post", 500, TypeError)
       ELSE LET price == IF settled = {} THEN products[orderItems[id].product].price
                         ELSE f.read[CHOOSE j \in settled : TRUE] IN
            /\ posts' = [posts EXCEPT ![r] =
                  [f EXCEPT !.subtotals[i] = Subtotal(orderItems[id].quantity, price),
                            !.read[i] = price]]
            /\ res' = NoResponse
    /\ UNCHANGED <<categories, products, orderItems, orders, nextItemId, nextOrderId, removing, log>>
PostLookupLenient(r, i, ok) ==
    LET f == posts[r] IN
    /\ f.pc = "pricing"
    /\ i \in 1..Len(f.orderItemsIds)
    /\ f.subtotals[i] = Pending
    /\ LET id == f.orderItemsIds[i] IN
       IF ~ok
       THEN /\ posts' = [posts EXCEPT ![r] = Responded(f)]
            /\ res' = Failure("post", 500, StoreError)
       ELSE IF id \notin DOMAIN orderItems \/ ~products[orderItems[id].product].exists
       THEN /\ posts' = [posts EXCEPT ![r] = [f EXCEPT !.subtotals[i] = Undefined]]
            /\ res' = NoResponse
       ELSE /\ posts' = [posts EXCEPT ![r] =
                  [f EXCEPT !.subtotals[i] =
                              Subtotal(orderItems[id].quantity,
                                       products[orderItems[id].product].price),
                            !.read[i] = products[orderItems[id].product].price]]
            /\ res' = NoResponse
    /\ UNCHANGED <<categories, products, orderItems, orders, nextItemId, nextOrderId, removing, log>>
PostLookup(r, i, ok) ==
    LET f == posts[r] IN
    /\ f.pc = "pricing"
    /\ i \in 1..Len(f.orderItemsIds)
    /\ f.subtotals[i] = Pending
    /\ LET id == f.orderItemsIds[i] IN
       IF ~ok
       THEN /\ posts' = [posts EXCEPT ![r] = Responded(f)]
            /\ res' = Failure("post", 500, StoreError)
       ELSE IF id \notin DOMAIN orderItems
       THEN /\ posts' = [posts EXCEPT ![r] = [f EXCEPT !.subtotals[i] = Undefined]]
            /\ res' = NoResponse
       ELSE IF ~products[orderItems[id].product].exists
       THEN /\ posts' = [posts EXCEPT ![r] = Responded(f)]
            /\ res' = Failure("post", 500, TypeError)
       ELSE /\ posts' = [posts EXCEPT ![r] =
                  [f EXCEPT !.subtotals[i] =
                              Subtotal(orderItems[id].quantity,
                                       products[orderItems[id].product].price),
                            !.read[i] = products[orderItems[id].product].price]]
            /\ res' = NoResponse
    /\ UNCHANGED <<categories, products, orderItems, orders, nextItemId, nextOrderId, removing, log>>

\* A body with no orderItems: req.body.orderItems.map throws before the first
\* await, inside the try, and the catch answers
MalformedBodies ==
    {[field \in DOMAIN body \ {"orderItems"} |-> body[field]] :
        body \in {b \in Bodies : b.totalPrice = Undefined}}

PostMalformed(body) ==
    /\ "orderItems" \notin DOMAIN body
    /\ res' = Failure("post", 500, TypeError)
    /\ UNCHANGED <<categories, products, orderItems, orders, nextItemId, nextOrderId, posts, removing, log>>

\* The Order schema on save: totalPrice is a Number (NaN fails the cast) and
\* status is a String with no set of allowed values
OrderSchemaAccepts(totalPrice, status) == IsNum(totalPrice)

\* Every lookup has settled: the total is summed, the Order constructed and
\* saved.  The response is sent when the save settles.
PostSaveOrder(r, ok) ==
    LET f == posts[r]
        totalPrice == TotalPrice(f.subtotals)
        id == nextOrderId + 1 IN
    /\ f.pc = "pricing"
    /\ \A i \in 1..Len(f.subtotals) : f.subtotals[i] # Pending
    /\ nextOrderId' = id
    /\ posts' = [posts EXCEPT ![r] = Responded(f)]
    /\ IF ok /\ OrderSchemaAccepts(totalPrice, f.body.status)
       THEN LET order == NewOrder(f.body, f.orderItemsIds, totalPrice.v, id) IN
            /\ orders' = With(orders, id, order)
            /\ res' = Success("post", 201, "This order has been posted", order)
       ELSE /\ orders' = orders
            /\ res' = Failure("post", 500, StoreError)
    /\ UNCHANGED <<categories, products, orderItems, nextItemId, removing>>

\* -------------------------------------------------------- PUT /orders/:id
\* The document Order.findByIdAndUpdate(id, {status}, {new: true}) leaves
UpdatedOrderLiveTotal(order, status) ==
    [order EXCEPT !.status = status,
                  !.totalPrice = SumSeq([i \in 1..Len(order.orderItems) |->
                      IF order.orderItems[i] \in DOMAIN orderItems
                      THEN orderItems[order.orderItems[i]].quantity
                           * products[orderItems[order.orderItems[i]].product].price
                      ELSE 0])]
UpdatedOrderOverwritten(order, status) ==
    [order EXCEPT !.status = status, !.phone = "", !.orderItems = <<>>]
UpdatedOrder(order, status) == [order EXCEPT !.status = status]

UpdateStatusUpsert(id, status, ok) ==
    /\ IF ~ok
       THEN /\ orders' = orders
            /\ res' = Failure("put", 500, StoreError)
       ELSE /\ orders' = With(orders, id,
                             IF id \in DOMAIN orders THEN UpdatedOrder(orders[id], status)
                             ELSE [_id |-> id, status |-> status])
            /\ res' = Success("put", 200, "The status for this order has been updated",
                              orders'[id])
    /\ UNCHANGED <<categories, products, orderItems, nextItemId, nextOrderId, posts, removing, log>>
UpdateStatus(id, status, ok) ==
    /\ IF ~ok
       THEN /\ orders' = orders
            /\ res' = Failure("put", 500, StoreError)
       ELSE IF id \notin DOMAIN orders
       THEN /\ orders' = orders
            /\ res' = Failure("put", 400, "Unable to update status for this order")
       ELSE /\ orders' = [orders EXCEPT ![id] = UpdatedOrder(orders[id], status)]
            /\ res' = Success("put", 200, "The status for this order has been updated",
                              orders'[id])
    /\ UNCHANGED <<categories, products, orderItems, nextItemId, nextOrderId, posts, removing, log>>

\* ----------------------------------------------------- DELETE /orders/:id
\* The status the handler answers with, given whether findByIdAndRemove
\* found an order
DeleteStatusAlways200(found) == 200
DeleteStatus(found) == IF found THEN 200 ELSE 404

\* The ids the handler calls OrderItem.findByIdAndRemove for
Cascade(order) == Range(order.orderItems)

\* The handler to its response: the order is removed, the removal of each of
\* its items is issued and not awaited, and the response is sent.
DeleteOrderFindOnly(id, ok) ==
    /\ IF ~ok
       THEN /\ UNCHANGED <<orders, removing>>
            /\ res' = Failure("delete", 500, StoreError)
       ELSE IF id \notin DOMAIN orders
       THEN /\ UNCHANGED <<orders, removing>>
            /\ res' = Failure("delete", DeleteStatus(FALSE),
                              "Unable to find and delete this order")
       ELSE /\ orders' = orders
            /\ removing' = removing \cup Cascade(orders[id])
            /\ res' = Success("delete", DeleteStatus(TRUE), "This order has been deleted",
                              orders[id])
    /\ UNCHANGED <<categories, products, orderItems, nextItemId, nextOrderId, posts, log>>
DeleteOrderAwaited(id, ok) ==
    /\ IF ~ok
       THEN /\ UNCHANGED <<orders, removing, orderItems>>
            /\ res' = Failure("delete", 500, StoreError)
       ELSE IF id \notin DOMAIN orders
       THEN /\ UNCHANGED <<orders, removing, orderItems>>
            /\ res' = Failure("delete", DeleteStatus(FALSE),
                              "Unable to find and delete this order")
       ELSE /\ orders' = Without(orders, id)
            /\ removing' = removing
            /\ orderItems' = [x \in DOMAIN orderItems \ Cascade(orders[id]) |-> orderItems[x]]
            /\ res' = Success("delete", DeleteStatus(TRUE), "This order has been deleted",
                              orders[id])
    /\ UNCHANGED <<categories, products, nextItemId, nextOrderId, posts, log>>
DeleteOrder(id, ok) ==
    /\ IF ~ok
       THEN /\ UNCHANGED <<orders, removing>>
            /\ res' = Failure("delete", 500, StoreError)
       ELSE IF id \notin DOMAIN orders
       THEN /\ UNCHANGED <<orders, removing>>
            /\ res' = Failure("delete", DeleteStatus(FALSE),
                              "Unable to find and delete this order")
       ELSE /\ orders' = Without(orders, id)
            /\ removing' = removing \cup Cascade(orders[id])
            /\ res' = Success("delete", DeleteStatus(TRUE), "This order has been deleted",
                              orders[id])
    /\ UNCHANGED <<categories, products, orderItems, nextItemId, nextOrderId, posts, log>>

\* What the process emits when a promise nobody awaits or catches rejects: no
\* response, an unhandledRejection event carrying the error
UnhandledRejection(error) ==
    [op |-> "unhandledRejection", status |-> 0, success |-> FALSE, message |-> "",
     error |-> error, data |-> <<>>]

\* One of the issued OrderItem.findByIdAndRemove(id) settles, after the response.
\* The promise of the async callback is dropped by the handler: when the store
\* call rejects, the rejection is handled by nobody.
RemoveOrderItem(id, ok) ==
    /\ id \in removing
    /\ removing' = removing \ {id}
    /\ orderItems' = IF ok THEN Without(orderItems, id) ELSE orderItems
    /\ res' = IF ok THEN NoResponse ELSE UnhandledRejection(StoreError)
    /\ UNCHANGED <<categories, products, orders, nextItemId, nextOrderId, posts, log>>

\* ------------------------------------------------ GET /orders/get/totalsales
RECURSIVE SumTotalPrice(_, _)
SumTotalPrice(coll, ids) ==
    IF ids = {} THEN 0
    ELSE LET id == CHOOSE x \in ids : TRUE IN
         coll[id].totalPrice + SumTotalPrice(coll, ids \ {id})

\* Order.aggregate([{$group: {_id: 0, totalsales: {$sum: '$totalPrice'}}}]):
\* one group document when there is an order, no document when there is none
AggregateSumOne(coll) ==
    IF DOMAIN coll = {} THEN <<>>
    ELSE <<[_id |-> 0, totalsales |-> Cardinality(DOMAIN coll)]>>
Aggregate(coll) ==
    IF DOMAIN coll = {} THEN <<>>
    ELSE <<[_id |-> 0, totalsales |-> SumTotalPrice(coll, DOMAIN coll)]>>

\* totalsales.pop().totalsales throws on the empty array: the catch answers 500
TotalSalesResponse(ok) ==
    LET totalsales == Aggregate(orders) IN
    IF ~ok THEN Failure("totalsales", 500, StoreError)
    ELSE IF totalsales = <<>> THEN Failure("totalsales", 500, TypeError)
    ELSE Success("totalsales", 200, "The totalsales of orders has been generated",
                 [totalsales |-> totalsales[Len(totalsales)].totalsales])

TotalSales(ok) ==
    /\ res' = TotalSalesResponse(ok)
    /\ UNCHANGED <<categories, products, orderItems, orders, nextItemId, nextOrderId, posts, removing, log>>

\* -------------------------------------------------------- GET /orders/:id
\* .populate({path: 'orderItems', populate: {path: 'product', ...}}): an id
\* with no document is left out of the array, a product with no document is null
\* The category every product of the catalogue was posted with
CategoryOf(p) == "c1"

\* populate: {path: 'category', ...} of a product: null when no such category
PopulatedCategoryStale(c) == [null |-> FALSE, _id |-> c]
PopulatedCategory(c) ==
    IF c \in categories THEN [null |-> FALSE, _id |-> c] ELSE [null |-> TRUE, _id |-> ""]

\* populate: {path: 'product', ...} of an item: null when no such product
PopulatedProduct(p) ==
    IF products[p].exists
    THEN [null |-> FALSE, _id |-> p, category |-> PopulatedCategory(CategoryOf(p))]
    ELSE [null |-> TRUE, _id |-> "", category |-> [null |-> TRUE, _id |-> ""]]

PopulatedItems(ids) ==
    LET found == SelectSeq(ids, LAMBDA id : id \in DOMAIN orderItems) IN
    [i \in 1..Len(found) |->
        [_id |-> found[i], quantity |-> orderItems[found[i]].quantity,
         product |-> PopulatedProduct(orderItems[found[i]].product)]]

Populated(order) == [order EXCEPT !.orderItems = PopulatedItems(order.orderItems)]

GetOrderResponseNull(id, ok) ==
    IF ~ok THEN Failure("get", 500, StoreError)
    ELSE IF id \notin DOMAIN orders
    THEN Success("get", 200, "Order with this id has been found", <<>>)
    ELSE Success("get", 200, "Order with this id has been found", Populated(orders[id]))
GetOrderResponse(id, ok) ==
    IF ~ok THEN Failure("get", 500, StoreError)
    ELSE IF id \notin DOMAIN orders
    THEN Failure("get", 500, "Unable to get order with this id")
    ELSE Success("get", 200, "Order with this id has been found", Populated(orders[id]))

GetOrder(id, ok) ==
    /\ res' = GetOrderResponse(id, ok)
    /\ UNCHANGED <<categories, products, orderItems, orders, nextItemId, nextOrderId, posts, removing, log>>

\* ------------------------------------------------------------ GET /orders
ShippingFields == {"shippingAddress1", "shippingAddress2", "city", "zip", "country"}

\* .select('-shippingAddress1 -shippingAddress2 -city -zip -country')
SelectAll(order) == order
Select(order) == [field \in DOMAIN order \ ShippingFields |-> order[field]]

\* .sort({'dateOrdered': -1}): the ids of the collection, latest order first
RECURSIVE SortByDateOrdered(_, _)
SortByDateOrdered(coll, ids) ==
    IF ids = {} THEN <<>>
    ELSE LET latest == CHOOSE x \in ids :
                          \A y \in ids : coll[y].dateOrdered <= coll[x].dateOrdered
         IN <<latest>> \o SortByDateOrdered(coll, ids \ {latest})

\* Order.find().select(...).populate(...).sort(...)
FindAll ==
    LET ids == SortByDateOrdered(orders, DOMAIN orders) IN
    [i \in 1..Len(ids) |-> Select(Populated(orders[ids[i]]))]

\* allOrders.length==0 ? 'No orders' : 'Orders found'
ListMessageFound(length) == "Orders found"
ListMessage(length) == IF length = 0 THEN "No orders" ELSE "Orders found"

ListOrdersResponse(ok) ==
    IF ~ok THEN Failure("list", 500, StoreError)
    ELSE Success("list", 200, ListMessage(Len(FindAll)), FindAll)

ListOrders(ok) ==
    /\ res' = ListOrdersResponse(ok)
    /\ UNCHANGED <<categories, products, orderItems, orders, nextItemId, nextOrderId, posts, removing, log>>

\* ---------------------------------------------------- GET /orders/get/count
\* Order.countDocuments()
CountDocuments(coll) == Cardinality(DOMAIN coll)

\* if (!count) answers 500: 0 is falsy
CountOrdersResponse(ok) ==
    LET count == CountDocuments(orders) IN
    IF ~ok THEN Failure("count", 500, StoreError)
    ELSE IF count = 0 THEN Failure("count", 500, "Unable to get count of orders")
    ELSE Success("count", 200, "Count of orders has been generated", [count |-> count])

CountOrders(ok) ==
    /\ res' = CountOrdersResponse(ok)
    /\ UNCHANGED <<categories, products, orderItems, orders, nextItemId, nextOrderId, posts, removing, log>>

\* ------------------------------------------- GET /orders/get/orders/:userid
\* Order.find({'user': userid}), in the order of the collection
RECURSIVE FindByUser(_, _, _)
FindByUser(coll, ids, user) ==
    IF ids = {} THEN <<>>
    ELSE LET first == CHOOSE x \in ids : \A y \in ids : x <= y
             rest == FindByUser(coll, ids \ {first}, user)
         IN IF coll[first].user = user THEN <<coll[first]>> \o rest ELSE rest

UserOrdersResponse(user, ok) ==
    IF ~ok THEN Failure("userorders", 500, StoreError)
    ELSE Success("userorders", 200, "Orders found for this user",
                 FindByUser(orders, DOMAIN orders, user))

UserOrders(user, ok) ==
    /\ res' = UserOrdersResponse(user, ok)
    /\ UNCHANGED <<categories, products, orderItems, orders, nextItemId, nextOrderId, posts, removing, log>>

\* ------------------------------------------- the products router's writes
\* PUT /products/:id: Product.findByIdAndUpdate(id, {..., price, ...})
ProductUpdate(p, price) ==
    /\ products[p].exists
    /\ products' = [products EXCEPT ![p] = ProductDoc(price)]
    /\ res' = NoResponse
    /\ UNCHANGED <<categories, orderItems, orders, nextItemId, nextOrderId, posts, removing, log>>

\* DELETE /products/:id: Product.findByIdAndRemove(id)
ProductDelete(p) ==
    /\ products[p].exists
    /\ products' = [products EXCEPT ![p] = NoProduct]
    /\ res' = NoResponse
    /\ UNCHANGED <<categories, orderItems, orders, nextItemId, nextOrderId, posts, removing, log>>

\* DELETE /categories/:id: Category.findByIdAndRemove(id)
CategoryDelete(c) ==
    /\ c \in categories
    /\ categories' = categories \ {c}
    /\ res' = NoResponse
    /\ UNCHANGED <<products, orderItems, orders, nextItemId, nextOrderId, posts, removing, log>>

\* ------------------------------------------------- the credential gate
\* What a request carries as its bearer credential: nothing, a token that
\* does not verify, or a token signed by POST /users/login for a user who is
\* or is not an admin
Credentials == {"none", "invalid", "user", "admin"}
Verifies(cred) == cred \in {"user", "admin"}

\* jwt.sign({userId, userIsAdmin: user.isAdmin}, ...)
Payload(cred) == [userIsAdmin |-> cred = "admin"]

\* isRevoked(req, token): true for a non-admin, undefined otherwise
IsRevokedNever(payload) == FALSE
IsRevoked(payload) == ~payload.userIsAdmin

\* jwt({secret, algorithms, isRevoked}) on a path .unless() does not list, as
\* every path of the orders router: the error it passes to next, or "next"
AuthJwt(cred) ==
    IF ~Verifies(cred) THEN "UnauthorizedError"
    ELSE IF IsRevoked(Payload(cred)) THEN "UnauthorizedError"
    ELSE "next"

\* errorHandler(err, req, res, next), registered right after the gate
ErrorHandler(name) ==
    IF name = "UnauthorizedError" THEN Failure("errorHandler", 401, "User not Authorized")
    ELSE IF name = "ValidationError" THEN Failure("errorHandler", 401, "Validation Error")
    ELSE Failure("errorHandler", 500, name)

\* A request the gate stops: errorHandler answers, no router is reached
Unauthorized(cred) ==
    /\ AuthJwt(cred) # "next"
    /\ res' = ErrorHandler(AuthJwt(cred))
    /\ UNCHANGED <<categories, products, orderItems, orders, nextItemId, nextOrderId, posts, removing, log>>

Admitted(cred) == AuthJwt(cred) = "next"

\* ---------------------------------------------------------- specification
OrderIds == Requests
ItemIds == 1..MaxItemIds

Init ==
    /\ products \in [ProductIds -> {ProductDoc(price) : price \in Prices}]
    /\ categories = CategoryIds
    /\ orderItems = <<>>
    /\ orders = <<>>
    /\ nextItemId = 0
    /\ nextOrderId = 0
    /\ posts = [r \in Requests |-> IdleFrame]
    /\ removing = {}
    /\ res = NoResponse
    /\ log = {}

\* A body without the totalPrice field, which the handler never reads
PlainBodies == {body \in Bodies : body.totalPrice = Undefined}

SaveOrder(r, ok) == PostSaveOrder(r, ok) /\ UNCHANGED log

Next ==
    \/ \E r \in Requests, body \in PlainBodies : PostStart(r, body)
    \/ \E r \in Requests, i \in ItemIds, ok \in BOOLEAN : PostSaveItem(r, i, ok)
    \/ \E r \in Requests, i \in ItemIds, ok \in BOOLEAN : PostLookup(r, i, ok)
    \/ \E r \in Requests, ok \in BOOLEAN : SaveOrder(r, ok)
    \/ \E id \in OrderIds, status \in Statuses, ok \in BOOLEAN : UpdateStatus(id, status, ok)
    \/ \E id \in OrderIds, ok \in BOOLEAN : DeleteOrder(id, ok)
    \/ \E id \in ItemIds, ok \in BOOLEAN : RemoveOrderItem(id, ok)
    \/ \E ok \in BOOLEAN : TotalSales(ok)
    \/ \E id \in OrderIds, ok \in BOOLEAN : GetOrder(id, ok)
    \/ \E p \in ProductIds, price \in Prices : ProductUpdate(p, price)
    \/ \E p \in ProductIds : ProductDelete(p)

Spec == Init /\ [][Next]_vars

\* The POST /orders handler and the catalogue alone, the bodies with or without
\* a totalPrice, and the history of the requests answered 201: what each sent,
\* what its lookups read, what was stored
Logged(r) == [body |-> posts[r].body, read |-> posts[r].read, order |-> res'.data]

SaveOrderLogged(r, ok) ==
    /\ PostSaveOrder(r, ok)
    /\ log' = IF res'.status = 201 THEN log \cup {Logged(r)} ELSE log

NextHistory ==
    \/ \E r \in Requests, body \in Bodies : PostStart(r, body)
    \/ \E r \in Requests, i \in ItemIds, ok \in BOOLEAN : PostSaveItem(r, i, ok)
    \/ \E r \in Requests, i \in ItemIds, ok \in BOOLEAN : PostLookup(r, i, ok)
    \/ \E r \in Requests, ok \in BOOLEAN : SaveOrderLogged(r, ok)
    \/ \E p \in ProductIds, price \in Prices : ProductUpdate(p, price)
    \/ \E p \in ProductIds : ProductDelete(p)

SpecHistory == Init /\ [][NextHistory]_vars

\* The whole API behind the gate: every request to the orders router carries
\* a credential and reaches its handler only when the gate lets it through;
\* the steps that follow an await belong to a request already admitted.
Request(cred) ==
    \/ Unauthorized(cred)
    \/ Admitted(cred) /\ \E r \in Requests, body \in PlainBodies : PostStart(r, body)
    \/ Admitted(cred) /\ \E body \in MalformedBodies : PostMalformed(body)
    \/ Admitted(cred) /\ \E id \in OrderIds, status \in Statuses, ok \in BOOLEAN :
                             UpdateStatus(id, status, ok)
    \/ Admitted(cred) /\ \E id \in OrderIds, ok \in BOOLEAN : DeleteOrder(id, ok)
    \/ Admitted(cred) /\ \E ok \in BOOLEAN : TotalSales(ok)
    \/ Admitted(cred) /\ \E id \in OrderIds, ok \in BOOLEAN : GetOrder(id, ok)
    \/ Admitted(cred) /\ \E ok \in BOOLEAN : ListOrders(ok)
    \/ Admitted(cred) /\ \E ok \in BOOLEAN : CountOrders(ok)
    \/ Admitted(cred) /\ \E user \in UserIds, ok \in BOOLEAN : UserOrders(user, ok)

NextApi ==
    \/ \E cred \in Credentials : Request(cred)
    \/ \E r \in Requests, i \in ItemIds, ok \in BOOLEAN : PostSaveItem(r, i, ok)
    \/ \E r \in Requests, i \in ItemIds, ok \in BOOLEAN : PostLookup(r, i, ok)
    \/ \E r \in Requests, ok \in BOOLEAN : SaveOrder(r, ok)
    \/ \E id \in ItemIds, ok \in BOOLEAN : RemoveOrderItem(id, ok)
    \/ \E p \in ProductIds : ProductDelete(p)
    \/ \E c \in CategoryIds : CategoryDelete(c)

SpecApi == Init /\ [][NextApi]_vars

\* ------------------------------------------------------------------ claims
\* The step in which request r's handler saves its Order and answers 201
Persists(r) ==
    /\ posts[r].pc = "pricing"
    /\ posts'[r].pc = "responded"
    /\ res'.op = "post"
    /\ res'.status = 201

\* C1: the order a successful POST /orders persists has totalPrice equal to the
\* sum over its line items of quantity times the price its lookup read.
C1_TotalPriceIsSum ==
    [][\A r \in Requests : Persists(r) =>
          LET pairs == posts[r].body.orderItems IN
          /\ res'.data._id \in DOMAIN orders'
          /\ orders'[res'.data._id].totalPrice =
                SumSeq([i \in 1..Len(pairs) |-> pairs[i].quantity * posts[r].read[i]])]_vars

\* A two-item order stored with total 5 = 2 * 2 + 1 * 1
C1_Witness ==
    /\ res.op = "post" /\ res.status = 201
    /\ Len(res.data.orderItems) = 2
    /\ res.data._id \in DOMAIN orders
    /\ orders[res.data._id].totalPrice = 5

\* While the saves settle, each value of the first Promise.all sits at the
\* position of its pair
C2_Positions ==
    \A r \in Requests : posts[r].pc = "saving" =>
        \A i \in 1..Len(posts[r].ids) :
            posts[r].orderItemsIds[i] \in {NoId, posts[r].ids[i]}

\* The step that stores the order stores, at position i, the id of the item
\* saved from the i-th pair
C2_Stored ==
    \A r \in Requests : Persists(r) =>
        LET pairs == posts[r].body.orderItems
            stored == orders'[res'.data._id].orderItems IN
        /\ Len(stored) = Len(pairs)
        /\ \A i \in 1..Len(pairs) :
              /\ stored[i] \in DOMAIN orderItems
              /\ orderItems[stored[i]].quantity = pairs[i].quantity
              /\ orderItems[stored[i]].product = pairs[i].product
        /\ \A i, j \in 1..Len(pairs) : i < j => stored[i] < stored[j]

\* C2: the ids stored in the order are in the order of the request's pairs, in
\* whatever order the saves of the line items settle: the values of the first
\* Promise.all sit at the position of their pair, and the i-th stored id is the
\* item saved from the i-th pair.
C2_OrderItemsKeepRequestOrder == []C2_Positions /\ [][C2_Stored]_vars

\* The save of the second pair has resolved before the save of the first
C2_Witness ==
    \E r \in Requests :
        /\ posts[r].pc = "saving"
        /\ posts[r].save = <<"pending", "saved">>
        /\ posts[r].orderItemsIds = <<NoId, posts[r].ids[2]>>
        /\ posts[r].body.orderItems[1].quantity # posts[r].body.orderItems[2].quantity

\* C3: once DELETE /orders/:id has answered 200, none of the line items the
\* order referenced is in the store.
C3_ItemsGoneOnceDeleteAnswered ==
    (res.op = "delete" /\ res.status = 200) =>
        \A i \in 1..Len(res.data.orderItems) : res.data.orderItems[i] \notin DOMAIN orderItems

\* No handler is running and no save or removal is in flight
Quiescent ==
    /\ removing = {}
    /\ \A r \in Requests : posts[r].pc \in {"idle", "responded"} /\ posts[r].save = <<>>

Owners(item) == {id \in DOMAIN orders : item \in Range(orders[id].orderItems)}

\* C4: when no request is in flight, every stored line item is referenced by
\* exactly one stored order.
C4_EveryItemHasOneOwner ==
    Quiescent => \A item \in DOMAIN orderItems : Cardinality(Owners(item)) = 1

\* C5: the totalPrice of a stored order never changes, whatever step is taken.
C5_TotalPriceIsSnapshot ==
    [][\A id \in DOMAIN orders : id \in DOMAIN orders' =>
          orders'[id].totalPrice = orders[id].totalPrice]_vars

\* What the order would cost at the prices of the catalogue now
LiveTotal(order) ==
    SumSeq([i \in 1..Len(order.orderItems) |->
              orderItems[order.orderItems[i]].quantity
              * products[orderItems[order.orderItems[i]].product].price])

\* An order with its items and product still stored, whose status has been
\* updated, and whose total is no longer what the catalogue's prices give
C5_Witness ==
    /\ res.op = "put" /\ res.status = 200
    /\ \A i \in 1..Len(res.data.orderItems) :
          /\ res.data.orderItems[i] \in DOMAIN orderItems
          /\ products[orderItems[res.data.orderItems[i]].product].exists
    /\ orders[res.data._id].totalPrice # LiveTotal(res.data)

\* C6: PUT /orders/:id on a stored order answers 200 with the order, changes
\* that order's status to the given string and nothing else in the store, and a
\* get-by-id that follows shows the new status.
C6_UpdateChangesOnlyStatus ==
    [][\A id \in OrderIds, status \in Statuses :
          (UpdateStatus(id, status, TRUE) /\ id \in DOMAIN orders) =>
              /\ res'.status = 200
              /\ res'.data = [orders[id] EXCEPT !.status = status]
              /\ orders' = [orders EXCEPT ![id] = [orders[id] EXCEPT !.status = status]]
              /\ orderItems' = orderItems
              /\ GetOrderResponse(id, TRUE)'.status = 200
              /\ GetOrderResponse(id, TRUE)'.data.status = status
              /\ GetOrderResponse(id, TRUE)'.data.totalPrice = orders[id].totalPrice]_vars

\* A status update answered 200 with two orders stored, the other one Pending
C6_Witness ==
    /\ res.op = "put" /\ res.status = 200 /\ res.data.status = "Shipped"
    /\ \E other \in DOMAIN orders : other # res.data._id /\ orders[other].status = "Pending"

\* C7: with no order stored and the store answering, GET /orders/get/totalsales
\* answers 200 with totalsales 0.
C7_NoOrdersTotalSalesIsZero ==
    (res.op = "totalsales" /\ DOMAIN orders = {} /\ res.error # StoreError) =>
        (res.status = 200 /\ res.data.totalsales = 0)

StoredTotal(id) == IF id \in DOMAIN orders THEN orders[id].totalPrice ELSE 0

\* C8: with an order stored and the store answering, GET /orders/get/totalsales
\* answers 200 with the sum of totalPrice over the stored orders.
C8_TotalSalesIsSum ==
    (res.op = "totalsales" /\ DOMAIN orders # {} /\ res.error # StoreError) =>
        /\ res.status = 200
        /\ res.data.totalsales = SumSeq([id \in 1..Cardinality(OrderIds) |-> StoredTotal(id)])

\* Two orders of unequal totals, 1 and 4, summed to 5
C8_Witness ==
    /\ res.op = "totalsales" /\ res.status = 200
    /\ Cardinality(DOMAIN orders) = 2
    /\ res.data.totalsales = 5

\* C9: DELETE /orders/:id for an id of no stored order leaves the Orders and the
\* OrderItems as they were and issues no removal; it answers 404 when the store
\* answers.
C9_DeleteUnknownIs404 ==
    [][\A id \in OrderIds, ok \in BOOLEAN :
          (DeleteOrder(id, ok) /\ id \notin DOMAIN orders) =>
              /\ ok => res'.status = 404 /\ ~res'.success
              /\ orders' = orders
              /\ orderItems' = orderItems
              /\ removing' = removing]_vars

\* A 404 answered while an order and its items are stored
C9_Witness ==
    /\ res.op = "delete" /\ res.status = 404
    /\ DOMAIN orders # {}
    /\ DOMAIN orderItems # {}

SameButTotal(a, b) == [a EXCEPT !.totalPrice = Undefined] = [b EXCEPT !.totalPrice = Undefined]

\* C10: two requests answered 201 whose bodies differ at most in totalPrice,
\* and whose lookups read the same prices, store the same totalPrice; and every
\* order is stored with the status of its body.
C10_CallerCannotSetTotal ==
    /\ \A a, b \in log :
          (SameButTotal(a.body, b.body) /\ a.read = b.read) =>
              a.order.totalPrice = b.order.totalPrice
    /\ \A a \in log : a.order.status = a.body.status

\* Two such requests, one with a totalPrice of 9 and one with none
C10_Witness ==
    \E a, b \in log :
        /\ SameButTotal(a.body, b.body) /\ a.read = b.read
        /\ a.body.totalPrice = Num(9) /\ b.body.totalPrice = Undefined
        /\ a.body.status = "Shipped"

\* C11: a request to the orders router whose credential is missing, does not
\* verify or is not an admin's is answered 401 by errorHandler, and leaves the
\* collections, the handlers' frames and the issued removals as they were.
C11_OnlyAdminsReachOrders ==
    [][\A cred \in Credentials \ {"admin"} : Request(cred) =>
          /\ res' = Failure("errorHandler", 401, "User not Authorized")
          /\ UNCHANGED <<categories, products, orderItems, orders, nextItemId,
                         nextOrderId, posts, removing>>]_vars

\* A 401 answered while an order is stored
C11_Witness ==
    /\ res.op = "errorHandler" /\ res.status = 401
    /\ DOMAIN orders # {}

\* The handlers of the orders router, by the name their responses carry
Endpoints == {"list", "get", "post", "put", "delete", "count", "totalsales", "userorders"}

\* C12: a step in which a store call fails sends a response of one of the
\* handlers, in the envelope, with status 500 and success false: the failure is
\* never left as a rejection nobody handles.
C12_StoreFailuresAreAnswered ==
    res.error = StoreError =>
        /\ res.op \in Endpoints
        /\ res.status = 500
        /\ ~res.success

\* C13: POST /orders with a body that has no orderItems is answered 400.
C13_InvalidInputIs400 ==
    [][\A body \in MalformedBodies : PostMalformed(body) => res'.status = 400]_vars

\* C14: with the store answering, GET /orders/get/count answers 200 with the
\* number of stored orders.
C14_CountIsNumberOfOrders ==
    (res.op = "count" /\ res.error # StoreError) =>
        /\ res.status = 200
        /\ res.data.count = Cardinality(DOMAIN orders)

\* C15: no order of a list response has a shipping-address field, and the
\* order of a get-by-id response has them all, as stored.
C15_ListHidesShippingFields ==
    /\ (res.op = "list" /\ res.status = 200) =>
          \A i \in 1..Len(res.data) : DOMAIN res.data[i] \cap ShippingFields = {}
    /\ (res.op = "get" /\ res.status = 200) =>
          /\ ShippingFields \subseteq DOMAIN res.data
          /\ \A field \in ShippingFields : res.data[field] = orders[res.data._id][field]

\* A list response that carries an order
C15_Witness ==
    /\ res.op = "list" /\ res.status = 200
    /\ Len(res.data) > 0
    /\ "phone" \in DOMAIN res.data[1]

\* C16: with the store answering, GET /orders/:id answers 200 with the order
\* of that id when it is stored, and otherwise 500 with success false and no
\* data.
C16_GetByIdFindsExactlyTheStored ==
    [][\A id \in OrderIds : GetOrder(id, TRUE) =>
          IF id \in DOMAIN orders
          THEN res'.status = 200 /\ res'.success /\ res'.data._id = id
          ELSE /\ res'.status = 500 /\ ~res'.success /\ res'.data = <<>>
               /\ res'.error = "Unable to get order with this id"]_vars

\* A get-by-id answered not found after the only order created was deleted
C16_Witness ==
    /\ res.op = "get" /\ res.status = 500
    /\ res.error = "Unable to get order with this id"
    /\ nextOrderId = 1 /\ DOMAIN orders = {}

\* C17: with the store answering, PUT /orders/:id for an id of no stored order
\* answers 400 and leaves the Orders as they were.
C17_UpdateUnknownIs400 ==
    [][\A id \in OrderIds, status \in Statuses :
          (UpdateStatus(id, status, TRUE) /\ id \notin DOMAIN orders) =>
              /\ res'.status = 400 /\ ~res'.success
              /\ orders' = orders
              /\ orderItems' = orderItems]_vars

\* A status update answered 400 after the only order created was deleted
C17_Witness ==
    /\ res.op = "put" /\ res.status = 400
    /\ nextOrderId = 1 /\ DOMAIN orders = {}

\* C18: with no order stored and the store answering, GET /orders answers 200
\* with success true, an empty array and the message 'No orders'.
C18_EmptyListIsNoOrders ==
    (res.op = "list" /\ res.error # StoreError /\ DOMAIN orders = {}) =>
        /\ res.status = 200 /\ res.success
        /\ res.data = <<>>
        /\ res.message = "No orders"

\* An empty list answered after an order was created and deleted
C18_Witness ==
    /\ res.op = "list" /\ res.status = 200 /\ res.data = <<>>
    /\ nextOrderId > 0

\* Every populated item has product null exactly when its product is not
\* stored, and a stored product has category null exactly when its category
\* is not stored
Degrades(items) ==
    \A j \in 1..Len(items) :
        LET p == orderItems[items[j]._id].product IN
        /\ items[j].product.null <=> ~products[p].exists
        /\ products[p].exists =>
              (items[j].product.category.null <=> CategoryOf(p) \notin categories)

C19_ListDegrades ==
    (res.op = "list" /\ res.error # StoreError) =>
        /\ res.status = 200
        /\ \A i \in 1..Len(res.data) : Degrades(res.data[i].orderItems)

C19_GetDegrades ==
    \A id \in OrderIds : (GetOrder(id, TRUE) /\ id \in DOMAIN orders) =>
        /\ res'.status = 200
        /\ Degrades(res'.data.orderItems)

\* C19: with the store answering, GET /orders and GET /orders/:id of a stored
\* order answer 200 whatever products and categories have been deleted, with
\* null for a product or a category that is not stored.
C19_DanglingReferencesReadAsNull == []C19_ListDegrades /\ [][C19_GetDegrades]_vars

\* A get-by-id answered 200 with an item whose product is stored and whose
\* product's category has been deleted
C19_Witness ==
    /\ res.op = "get" /\ res.status = 200
    /\ \E j \in 1..Len(res.data.orderItems) :
          /\ ~res.data.orderItems[j].product.null
          /\ res.data.orderItems[j].product.category.null

\* The save of an item of request r is rejected while the handler awaits the
\* saves: the answer is a failure, the handler is over, no order is written and
\* the items already written stay
C20_Rejected ==
    \A r \in Requests, i \in ItemIds :
        (PostSaveItem(r, i, FALSE) /\ posts[r].pc = "saving") =>
            /\ res'.op = "post" /\ res'.status = 500 /\ ~res'.success
            /\ posts'[r].pc = "responded"
            /\ orders' = orders
            /\ orderItems' = orderItems

\* A handler that has answered never runs again, so it writes no order; and
\* an item no order references, whose removal no delete has issued, stays
C20_NoRollback ==
    /\ \A r \in Requests : posts[r].pc = "responded" => posts'[r].pc = "responded"
    /\ \A item \in DOMAIN orderItems :
          (Owners(item) = {} /\ item \notin removing) => item \in DOMAIN orderItems'

\* C20: when the save of a line item fails during POST /orders, the request is
\* answered with a failure, no order is stored for it, and the items it has
\* written are not removed: they stay in the store, referenced by no order.
C20_FailedItemWriteLeavesOrphans == [][C20_Rejected /\ C20_NoRollback]_vars

\* The request of two items has failed on its second save after its first was
\* written: item 1 is stored, no order is, and nothing is in flight
C20_Witness ==
    /\ res = Failure("post", 500, StoreError)
    /\ posts[1].pc = "responded" /\ posts[2].pc = "idle"
    /\ nextItemId = 2
    /\ DOMAIN orderItems = {1}
    /\ DOMAIN orders = {} /\ nextOrderId = 0
    /\ Quiescent

\* No lookup of a handler has returned undefined: the item a lookup re-reads
\* is one the handler saved, and nothing removes an item no order references
C21_NoUndefinedSubtotal ==
    \A r \in Requests : \A i \in 1..Len(posts[r].subtotals) :
        posts[r].subtotals[i] # Undefined

\* The order a handler stores is summed from numbers only; a lookup that finds
\* the product of its item gone ends the handler with a failure and no order,
\* and a handler that has answered stores nothing later
C21_Step ==
    /\ \A r \in Requests : Persists(r) =>
          /\ \A i \in 1..Len(posts[r].subtotals) : IsNum(posts[r].subtotals[i])
          /\ orders'[res'.data._id].totalPrice = SumSeq(
                [i \in 1..Len(posts[r].subtotals) |-> posts[r].subtotals[i].v])
    /\ \A r \in Requests, i \in ItemIds :
          (/\ PostLookup(r, i, TRUE)
           /\ posts[r].orderItemsIds[i] \in DOMAIN orderItems
           /\ ~products[orderItems[posts[r].orderItemsIds[i]].product].exists) =>
              /\ res'.op = "post" /\ res'.status = 500 /\ ~res'.success
              /\ posts'[r].pc = "responded"
              /\ orders' = orders
    /\ \A r \in Requests : posts[r].pc = "responded" => posts'[r].pc = "responded"

\* C21: POST /orders never stores an order whose total was summed from an
\* undefined subtotal: when the product of a line item is not found the request
\* is answered with a failure and no order is written, and no lookup ever fails
\* to re-read its line item.
C21_NoOrderFromMissingSubtotal == []C21_NoUndefinedSubtotal /\ [][C21_Step]_vars

\* A request answered 500 on the TypeError of a deleted product, its items
\* stored and no order written
C21_Witness ==
    /\ res = Failure("post", 500, TypeError)
    /\ \E r \in Requests : posts[r].pc = "responded"
    /\ ~products["p1"].exists
    /\ DOMAIN orderItems # {}
    /\ nextOrderId = 0

\* While the lookups of a handler run, every save of its items has resolved
\* and every item is stored; and every item a stored order references is stored
C22_Phases ==
    /\ \A r \in Requests : posts[r].pc = "pricing" =>
          /\ \A i \in 1..Len(posts[r].save) : posts[r].save[i] # "pending"
          /\ \A i \in 1..Len(posts[r].orderItemsIds) :
                /\ posts[r].orderItemsIds[i] # NoId
                /\ posts[r].orderItemsIds[i] \in DOMAIN orderItems
    /\ \A id \in DOMAIN orders :
          \A i \in 1..Len(orders[id].orderItems) :
              orders[id].orderItems[i] \in DOMAIN orderItems

\* A lookup settles only in the pricing phase, and the order is written only
\* when no lookup is pending, with every item it references stored
C22_Step ==
    /\ \A r \in Requests, i \in ItemIds, ok \in BOOLEAN :
          PostLookup(r, i, ok) => posts[r].pc = "pricing"
    /\ \A r \in Requests : Persists(r) =>
          /\ \A i \in 1..Len(posts[r].subtotals) : posts[r].subtotals[i] # Pending
          /\ \A i \in 1..Len(orders'[res'.data._id].orderItems) :
                orders'[res'.data._id].orderItems[i] \in DOMAIN orderItems

\* C22: within one POST /orders no lookup runs before every save of the
\* request's items has resolved, and the order is written only after every
\* lookup has settled, so the items a written order references are stored.
C22_PhasesAreOrdered == []C22_Phases /\ [][C22_Step]_vars

\* The lookups of a request of two items under way, the second settled before
\* the first
C22_Witness ==
    \E r \in Requests :
        /\ posts[r].pc = "pricing"
        /\ Len(posts[r].subtotals) = 2
        /\ posts[r].subtotals[1] = Pending
        /\ posts[r].subtotals[2] # Pending

\* The delete of a stored order answers 200 with every item of the order still
\* stored and its removal issued; a removal that fails sends no response,
\* leaves its item stored and brings no order back; an order once removed is
\* never stored again
C23_Step ==
    /\ \A id \in OrderIds : (DeleteOrder(id, TRUE) /\ id \in DOMAIN orders) =>
          /\ res'.status = 200 /\ res'.success /\ res'.data = orders[id]
          /\ id \notin DOMAIN orders'
          /\ orderItems' = orderItems
          /\ Range(orders[id].orderItems) \subseteq removing'
    /\ \A item \in ItemIds : RemoveOrderItem(item, FALSE) =>
          /\ res'.op \notin Endpoints
          /\ orders' = orders
          /\ orderItems' = orderItems
          /\ item \notin removing'
    /\ \A id \in 1..nextOrderId : id \notin DOMAIN orders => id \notin DOMAIN orders'

C24_Step ==
    \A id \in OrderIds :
        /\ (DeleteOrder(id, TRUE) /\ id \in DOMAIN orders) =>
              /\ res'.status = 200 /\ res'.data = orders[id]
              /\ id \notin DOMAIN orders'
              /\ removing' = removing \cup Range(orders[id].orderItems)
        /\ (DeleteOrder(id, TRUE) /\ id \notin DOMAIN orders) =>
              /\ res'.status = 404 /\ res'.data = <<>>
              /\ removing' = removing
        /\ (id \in 1..nextOrderId /\ id \notin DOMAIN orders) => id \notin DOMAIN orders'

\* C24: of two DELETE /orders/:id for the same stored order, with the store
\* answering, the one whose store call runs first answers 200 with the order
\* and the other answers 404; the removals of the items are issued by the one
\* that answered 200 only.
C24_OneDeleteWins == [][C24_Step]_vars

\* A second delete answered 404 while the removal issued by the first, which
\* answered 200, is still in flight
C24_Witness ==
    /\ res.op = "delete" /\ res.status = 404
    /\ nextOrderId = 1 /\ DOMAIN orders = {}
    /\ removing = {1}
    /\ 1 \in DOMAIN orderItems

\* A settled lookup holds the subtotal of its item at the price it read
C25_Subtotals ==
    \A r \in Requests : posts[r].pc = "pricing" =>
        \A i \in 1..Len(posts[r].subtotals) :
            posts[r].subtotals[i] # Pending =>
                posts[r].subtotals[i] =
                    Num(posts[r].body.orderItems[i].quantity * posts[r].read[i])

\* A lookup that finds its product reads the price the product has at that
\* step, between the saves of the items and the write of the order; what a
\* lookup has read is not changed by a later step; and the total stored is the
\* sum of the quantities times the prices read
C25_Step ==
    /\ \A r \in Requests, i \in ItemIds :
          (PostLookup(r, i, TRUE) /\ posts'[r].pc = "pricing") =>
              /\ posts[r].pc = "pricing"
              /\ posts'[r].read[i] = products[posts[r].body.orderItems[i].product].price
    /\ \A r \in Requests :
          (posts[r].pc = "pricing" /\ posts'[r].pc = "pricing") =>
              \A i \in 1..Len(posts[r].subtotals) :
                  posts[r].subtotals[i] # Pending =>
                      /\ posts'[r].read[i] = posts[r].read[i]
                      /\ posts'[r].subtotals[i] = posts[r].subtotals[i]
    /\ \A r \in Requests : Persists(r) =>
          res'.data.totalPrice =
              SumSeq([i \in 1..Len(posts[r].read) |->
                         posts[r].body.orderItems[i].quantity * posts[r].read[i]])

\* C25: with the price of a product updated while a POST /orders that
\* references it runs, each subtotal is the quantity times the price stored at
\* the step of its own lookup, and the total stored is the sum of these: no
\* price enters the total but one the product held during the request's
\* lookups.
C25_EachLookupReadsItsOwnPrice == []C25_Subtotals /\ [][C25_Step]_vars

\* An order of two items of the same product stored with the two items priced
\* differently, the price now being the one the second lookup did not read
C25_Witness ==
    \E a \in log :
        /\ Len(a.read) = 2
        /\ a.body.orderItems[1].product = a.body.orderItems[2].product
        /\ a.read[1] # a.read[2]
        /\ a.order.totalPrice = a.body.orderItems[1].quantity * a.read[1]
                                 + a.body.orderItems[2].quantity * a.read[2]
        /\ products[a.body.orderItems[2].product].exists
        /\ products[a.body.orderItems[2].product].price # a.read[2]

====
